---- MODULE Spec2Model ----
(***************************************************************************)
(* MBO -> MBP-10 reconstruction (src/reconstruction.cpp).                  *)
(*                                                                         *)
(* The state is the driver's: the Market (one Book per existing            *)
(* (instrument, publisher) pair), the sequencer's pendingTFs map, the row  *)
(* counter, the last parsed line and the last row written.  One step of    *)
(* the state machine is one iteration of main's while loop, split by the   *)
(* branch of the sequencer the event takes.  pre is a history variable:    *)
(* the Market and pendingTFs as they were when the last line was read.     *)
(*                                                                         *)
(* Sizes are uint32_t in the source.  TLC's integers are 32 bit signed, so *)
(* the model counts sizes in units of 2^16 shares: every size of the model *)
(* stands for a multiple of 2^16, comparison and subtraction are unchanged *)
(* and uint32 addition wraps at U32Units = 2^32 / 2^16.                    *)
(***************************************************************************)
EXTENDS Integers, Sequences, FiniteSets, TLC

VARIABLES books, pendingTFs, mbpRowIdx, lineNo, m, row, halted, pre, view

vars == <<books, pendingTFs, mbpRowIdx, lineNo, m, row, halted, pre, view>>

----------------------------------------------------------------------------
(* Bounds of the model. *)

MaxPrice == 2
MaxSize == 2
MaxId == 2
MaxEvents == 3
\* The number of calls made on the one Book of SpecBook.
MaxCalls == 4

(* Program constants. *)

\* const int64_t UNDEFINED_PRICE: the most negative price; held here as the
\* most negative value the model's prices can take.
UNDEFINED_PRICE == -2147483647
\* GetAggBidLvls(m.instrId, 10) / GetAggAskLvls(m.instrId, 10) in main.
TopN == 10
\* uint32_t wraps at 2^32 shares = 2^16 units of 2^16 shares.
U32Units == 2^16
\* 2^31 shares, in units: two such orders overflow a uint32_t sum.
HalfU32 == 2^15

Ask == "A"
Bid == "B"
NoSide == "N"
Sides == {Ask, Bid, NoSide}

ActAdd == "A"
ActCancel == "C"
ActModify == "M"
ActClear == "R"
ActTrade == "T"
ActFill == "F"
ActNone == "N"
Actions == {ActAdd, ActCancel, ActModify, ActClear, ActTrade, ActFill, ActNone}

Prices == 1..MaxPrice
Sizes == 0..MaxSize
Ids == 1..MaxId

\* An order id no Add, Modify, Trade or Fill of the input carries.
UnknownId == MaxId + 1

\* struct MboSingle, the fields the program reads after parsing, for the
\* lines of instruments I and publishers P.  Cancels may name an id no order
\* ever had; Clear and None lines carry no order (size 0, order_id 0).
MboSingle(I, P) ==
    [action : {ActAdd, ActModify, ActTrade, ActFill}, side : Sides,
     price : Prices, size : Sizes, orderId : Ids, instrId : I, pubId : P]
    \cup
    [action : {ActCancel}, side : Sides, price : Prices, size : Sizes,
     orderId : Ids \cup {UnknownId}, instrId : I, pubId : P]
    \cup
    [action : {ActClear, ActNone}, side : Sides, price : Prices, size : {0},
     orderId : {0}, instrId : I, pubId : P]

NoMsg == [action |-> ActNone, side |-> NoSide, price |-> UNDEFINED_PRICE,
          size |-> 0, orderId |-> 0, instrId |-> 0, pubId |-> 0]

----------------------------------------------------------------------------
(* std::map / std::unordered_map as functions with a finite domain. *)

EmptyMap == [x \in {} |-> x]

MapPut(f, k, v) == [x \in DOMAIN f \cup {k} |-> IF x = k THEN v ELSE f[x]]

MapErase(f, k) == [x \in DOMAIN f \ {k} |-> f[x]]

Has(f, k) == k \in DOMAIN f

RECURSIVE KeysAsc(_)
\* The keys of a std::map in iteration order (begin() .. end()).
KeysAsc(S) ==
    IF S = {} THEN <<>>
    ELSE LET mn == CHOOSE x \in S : \A y \in S : x <= y
         IN  <<mn>> \o KeysAsc(S \ {mn})

RECURSIVE KeysDesc(_)
\* The keys of a std::map in reverse iteration order (rbegin() .. rend()).
KeysDesc(S) ==
    IF S = {} THEN <<>>
    ELSE LET mx == CHOOSE x \in S : \A y \in S : x >= y
         IN  <<mx>> \o KeysDesc(S \ {mx})

\* std::list::erase of the i-th element.
ListErase(q, i) == SubSeq(q, 1, i - 1) \o SubSeq(q, i + 1, Len(q))

Min(a, b) == IF a < b THEN a ELSE b

----------------------------------------------------------------------------
(* class Book *)

\* A default constructed Book.
EmptyBook == [bids |-> EmptyMap, offers |-> EmptyMap, ordsById |-> EmptyMap]

\* The MboSingle stored in a level's list: of it the program reads back
\* orderId and size only.
Entry(msg) == [orderId |-> msg.orderId, size |-> msg.size]

\* The result of a Book operation: the Book it leaves, and whether it
\* returned (ok) or threw.
Ok(b) == [b |-> b, ok |-> TRUE]
Thrown(b) == [b |-> b, ok |-> FALSE]

ValidSide(s) == s \in {Ask, Bid}

\* GetSdOrds, for a side it does not throw on.
GetSdOrds(b, s) == IF s = Ask THEN b.offers ELSE b.bids

\* Assignment through the reference GetSdOrds returns.
SetSdOrds(b, s, lvls) ==
    IF s = Ask THEN [b EXCEPT !.offers = lvls] ELSE [b EXCEPT !.bids = lvls]

\* GetLvl throws unless the level exists.
HasLvl(b, s, px) == ValidSide(s) /\ Has(GetSdOrds(b, s), px)

GetLvl(b, s, px) == GetSdOrds(b, s)[px]

\* GetOrInsLvl: operator[] inserts an empty list for a new price.
GetOrInsLvl(b, s, px) ==
    IF Has(GetSdOrds(b, s), px) THEN GetSdOrds(b, s)[px] ELSE <<>>

SetLvl(b, s, px, q) == SetSdOrds(b, s, MapPut(GetSdOrds(b, s), px, q))

\* RemLvl: GetSdOrds(s).erase(px), which throws on an invalid side.
RemLvl(b, s, px) ==
    IF ValidSide(s) THEN Ok(SetSdOrds(b, s, MapErase(GetSdOrds(b, s), px)))
    ELSE Thrown(b)

\* GetLvlOrd: std::find_if, the position of the first entry with the id,
\* 0 for end().
GetLvlOrd(lvl, ordId) ==
    IF \E i \in 1..Len(lvl) : lvl[i].orderId = ordId
    THEN CHOOSE i \in 1..Len(lvl) :
             /\ lvl[i].orderId = ordId
             /\ \A j \in 1..(i - 1) : lvl[j].orderId # ordId
    ELSE 0

EmptyPriceLvl == [price |-> UNDEFINED_PRICE, size |-> 0, count |-> 0]

\* PriceLvl::IsEmpty
IsEmpty(lvl) == lvl.price = UNDEFINED_PRICE

RECURSIVE CalcFrom(_, _, _)
\* The loop of CalcPriceLvl from entry i on, res the PriceLvl so far.  count
\* is a uint32_t too; it counts list nodes and stays far below 2^32.
CalcFrom(lvl, i, res) ==
    IF i > Len(lvl) THEN res
    ELSE CalcFrom(lvl, i + 1,
                  [res EXCEPT !.count = @ + 1,
                              !.size = (@ + lvl[i].size) % U32Units])

CalcPriceLvl(px, lvl) == CalcFrom(lvl, 1, [price |-> px, size |-> 0, count |-> 0])

GetBidLvl(b, idx) ==
    IF Cardinality(DOMAIN b.bids) > idx
    THEN LET px == KeysDesc(DOMAIN b.bids)[idx + 1]
         IN  CalcPriceLvl(px, b.bids[px])
    ELSE EmptyPriceLvl

GetAskLvl(b, idx) ==
    IF Cardinality(DOMAIN b.offers) > idx
    THEN LET px == KeysAsc(DOMAIN b.offers)[idx + 1]
         IN  CalcPriceLvl(px, b.offers[px])
    ELSE EmptyPriceLvl

\* Mutant of GetBidLvls: the levels taken from begin(), the lowest price
\* first.
GetBidLvlsFromBegin(b, numLvls) ==
    LET ks == KeysAsc(DOMAIN b.bids)
    IN  [i \in 1..Min(numLvls, Len(ks)) |-> CalcPriceLvl(ks[i], b.bids[ks[i]])]

GetBidLvls(b, numLvls) ==
    LET ks == KeysDesc(DOMAIN b.bids)
    IN  [i \in 1..Min(numLvls, Len(ks)) |-> CalcPriceLvl(ks[i], b.bids[ks[i]])]

GetAskLvls(b, numLvls) ==
    LET ks == KeysAsc(DOMAIN b.offers)
    IN  [i \in 1..Min(numLvls, Len(ks)) |-> CalcPriceLvl(ks[i], b.offers[ks[i]])]

RECURSIVE BidDepthFrom(_, _, _)
\* The loop of GetBidLevelDepth over the keys from rbegin().
BidDepthFrom(ks, price, depth) ==
    IF ks = <<>> THEN 0
    ELSE IF Head(ks) = price THEN depth
    ELSE IF Head(ks) < price THEN 0
    ELSE BidDepthFrom(Tail(ks), price, depth + 1)

GetBidLevelDepth(b, price) == BidDepthFrom(KeysDesc(DOMAIN b.bids), price, 0)

\* Mutant of GetAskLevelDepth: the level lower_bound finds taken for the
\* level asked for, its price not compared.
GetAskLevelDepthNearest(b, price) ==
    LET ks == KeysAsc(DOMAIN b.offers)
        ge == {i \in 1..Len(ks) : ks[i] >= price}
    IN  IF ge = {} THEN 0
        ELSE (CHOOSE i \in ge : \A j \in ge : i <= j) - 1

\* lower_bound(price), then std::distance(begin(), it).
GetAskLevelDepth(b, price) ==
    LET ks == KeysAsc(DOMAIN b.offers)
        ge == {i \in 1..Len(ks) : ks[i] >= price}
    IN  IF ge = {} THEN 0
        ELSE LET it == CHOOSE i \in ge : \A j \in ge : i <= j
             IN  IF ks[it] # price THEN 0 ELSE it - 1

\* Mutant of Clear: the two price maps cleared, the id index forgotten.
ClearKeepsIndex(b) == Ok([EmptyBook EXCEPT !.ordsById = b.ordsById])

\* Book::Clear
Clear(b) == Ok(EmptyBook)

\* Mutant of Add: an order that names no side kept on the bid side, as
\* GetSdOrds would do without its default case.
AddDefaultsToBid(b, msg) ==
    LET lvls == IF msg.side = Ask THEN b.offers ELSE b.bids
        lvl == IF Has(lvls, msg.price) THEN lvls[msg.price] ELSE <<>>
        lvls1 == MapPut(lvls, msg.price, Append(lvl, Entry(msg)))
        b1 == IF msg.side = Ask THEN [b EXCEPT !.offers = lvls1]
              ELSE [b EXCEPT !.bids = lvls1]
    IN  IF Has(b.ordsById, msg.orderId) THEN Thrown(b1)
        ELSE Ok([b1 EXCEPT !.ordsById =
                    MapPut(@, msg.orderId,
                           [price |-> msg.price, side |-> msg.side])])

\* Mutant of Add: a duplicate id accepted in silence, emplace's result not
\* looked at.
AddNoThrow(b, msg) ==
    IF ~ValidSide(msg.side) THEN Thrown(b)
    ELSE LET lvl == GetOrInsLvl(b, msg.side, msg.price)
             b1 == SetLvl(b, msg.side, msg.price, Append(lvl, Entry(msg)))
         IN  IF Has(b.ordsById, msg.orderId) THEN Ok(b1)
             ELSE Ok([b1 EXCEPT !.ordsById =
                         MapPut(@, msg.orderId,
                                [price |-> msg.price, side |-> msg.side])])

\* Book::Add.  GetOrInsLvl throws on an invalid side before anything is
\* changed; the entry is appended to the level before the id index rejects a
\* duplicate id, so a duplicate Add throws with the entry already queued.
Add(b, msg) ==
    IF ~ValidSide(msg.side) THEN Thrown(b)
    ELSE LET lvl == GetOrInsLvl(b, msg.side, msg.price)
             b1 == SetLvl(b, msg.side, msg.price, Append(lvl, Entry(msg)))
         IN  IF Has(b.ordsById, msg.orderId) THEN Thrown(b1)
             ELSE Ok([b1 EXCEPT !.ordsById =
                         MapPut(@, msg.orderId,
                                [price |-> msg.price, side |-> msg.side])])

\* What psIt->second may read as once ordsById_.erase(m.orderId) has freed
\* the node psIt points to: the iterator dangles, the read is undefined, and
\* the build may hand back the old pair or any other bytes.  NoSide stands
\* for every byte that is not a side, UNDEFINED_PRICE for every price at
\* which the Book has no level.
FreedPxAndSd(ps) == [price : Prices \cup {UNDEFINED_PRICE}, side : Sides]

\* Mutant of CancelledSize: the subtraction made without the cap, in
\* uint32_t.
CancelledSizeWraps(cur, req) == (cur - req) % U32Units

\* The size a Cancel leaves: capped at 0 when more is cancelled than rests.
CancelledSize(cur, req) == IF cur < req THEN 0 ELSE cur - req

\* Book::Cancel: the set of its possible results.
Cancel(b, msg) ==
    IF ~Has(b.ordsById, msg.orderId) THEN {Ok(b)}
    ELSE
    LET ps == b.ordsById[msg.orderId]
    IN  IF ~HasLvl(b, ps.side, ps.price) THEN {Thrown(b)}
        ELSE
        LET lvl == GetLvl(b, ps.side, ps.price)
            ordIt == GetLvlOrd(lvl, msg.orderId)
        IN  IF ordIt = 0 THEN {Ok(b)}
            ELSE
            LET sz == CancelledSize(lvl[ordIt].size, msg.size)
            IN  IF sz # 0
                THEN {Ok(SetLvl(b, ps.side, ps.price,
                                [lvl EXCEPT ![ordIt].size = sz]))}
                ELSE
                LET lvl1 == ListErase(lvl, ordIt)
                    b1 == [SetLvl(b, ps.side, ps.price, lvl1)
                             EXCEPT !.ordsById = MapErase(@, msg.orderId)]
                IN  IF lvl1 # <<>> THEN {Ok(b1)}
                    ELSE {RemLvl(b1, f.side, f.price) : f \in FreedPxAndSd(ps)}

\* Mutant of Modify: a larger size written in place, the order keeping its
\* place in the list.
ModifyInPlace(b, msg) ==
    IF ~Has(b.ordsById, msg.orderId) THEN Add(b, msg)
    ELSE
    LET ps == b.ordsById[msg.orderId]
        prevPx == ps.price
    IN  IF ps.side # msg.side THEN Thrown(b)
        ELSE IF ~HasLvl(b, msg.side, prevPx) THEN Thrown(b)
        ELSE
        LET prevLvl == GetLvl(b, msg.side, prevPx)
            ordIt == GetLvlOrd(prevLvl, msg.orderId)
        IN  IF ordIt = 0 THEN Ok(b)
            ELSE IF prevPx # msg.price
            THEN LET b1 == [b EXCEPT !.ordsById[msg.orderId].price = msg.price]
                     lvl1 == ListErase(prevLvl, ordIt)
                     b2 == IF lvl1 = <<>>
                           THEN RemLvl(b1, msg.side, prevPx).b
                           ELSE SetLvl(b1, msg.side, prevPx, lvl1)
                     newLvl == GetOrInsLvl(b2, msg.side, msg.price)
                 IN  Ok(SetLvl(b2, msg.side, msg.price,
                               Append(newLvl, Entry(msg))))
            ELSE Ok(SetLvl(b, msg.side, prevPx,
                           [prevLvl EXCEPT ![ordIt].size = msg.size]))

\* Mutant of Modify: the moved order's index entry left at the old price.
ModifyKeepsIndexPrice(b, msg) ==
    IF ~Has(b.ordsById, msg.orderId) THEN Add(b, msg)
    ELSE
    LET ps == b.ordsById[msg.orderId]
        prevPx == ps.price
    IN  IF ps.side # msg.side THEN Thrown(b)
        ELSE IF ~HasLvl(b, msg.side, prevPx) THEN Thrown(b)
        ELSE
        LET prevLvl == GetLvl(b, msg.side, prevPx)
            ordIt == GetLvlOrd(prevLvl, msg.orderId)
        IN  IF ordIt = 0 THEN Ok(b)
            ELSE IF prevPx # msg.price
            THEN LET lvl1 == ListErase(prevLvl, ordIt)
                     b2 == IF lvl1 = <<>>
                           THEN RemLvl(b, msg.side, prevPx).b
                           ELSE SetLvl(b, msg.side, prevPx, lvl1)
                     newLvl == GetOrInsLvl(b2, msg.side, msg.price)
                 IN  Ok(SetLvl(b2, msg.side, msg.price,
                               Append(newLvl, Entry(msg))))
            ELSE IF prevLvl[ordIt].size < msg.size
            THEN Ok(SetLvl(b, msg.side, prevPx,
                           Append(ListErase(prevLvl, ordIt), Entry(msg))))
            ELSE Ok(SetLvl(b, msg.side, prevPx,
                           [prevLvl EXCEPT ![ordIt].size = msg.size]))

\* Mutant of Modify: an unknown id warned about and ignored, as Cancel does.
ModifyIgnoresUnknown(b, msg) ==
    IF ~Has(b.ordsById, msg.orderId) THEN Ok(b)
    ELSE
    LET ps == b.ordsById[msg.orderId]
        prevPx == ps.price
    IN  IF ps.side # msg.side THEN Thrown(b)
        ELSE IF ~HasLvl(b, msg.side, prevPx) THEN Thrown(b)
        ELSE
        LET prevLvl == GetLvl(b, msg.side, prevPx)
            ordIt == GetLvlOrd(prevLvl, msg.orderId)
        IN  IF ordIt = 0 THEN Ok(b)
            ELSE IF prevPx # msg.price
            THEN LET b1 == [b EXCEPT !.ordsById[msg.orderId].price = msg.price]
                     lvl1 == ListErase(prevLvl, ordIt)
                     b2 == IF lvl1 = <<>>
                           THEN RemLvl(b1, msg.side, prevPx).b
                           ELSE SetLvl(b1, msg.side, prevPx, lvl1)
                     newLvl == GetOrInsLvl(b2, msg.side, msg.price)
                 IN  Ok(SetLvl(b2, msg.side, msg.price,
                               Append(newLvl, Entry(msg))))
            ELSE IF prevLvl[ordIt].size < msg.size
            THEN Ok(SetLvl(b, msg.side, prevPx,
                           Append(ListErase(prevLvl, ordIt), Entry(msg))))
            ELSE Ok(SetLvl(b, msg.side, prevPx,
                           [prevLvl EXCEPT ![ordIt].size = msg.size]))

\* Book::Modify
Modify(b, msg) ==
    IF ~Has(b.ordsById, msg.orderId) THEN Add(b, msg)
    ELSE
    LET ps == b.ordsById[msg.orderId]
        prevPx == ps.price
    IN  IF ps.side # msg.side THEN Thrown(b)
        ELSE IF ~HasLvl(b, msg.side, prevPx) THEN Thrown(b)
        ELSE
        LET prevLvl == GetLvl(b, msg.side, prevPx)
            ordIt == GetLvlOrd(prevLvl, msg.orderId)
        IN  IF ordIt = 0 THEN Ok(b)
            ELSE IF prevPx # msg.price
            THEN LET b1 == [b EXCEPT !.ordsById[msg.orderId].price = msg.price]
                     lvl1 == ListErase(prevLvl, ordIt)
                     b2 == IF lvl1 = <<>>
                           THEN RemLvl(b1, msg.side, prevPx).b
                           ELSE SetLvl(b1, msg.side, prevPx, lvl1)
                     newLvl == GetOrInsLvl(b2, msg.side, msg.price)
                 IN  Ok(SetLvl(b2, msg.side, msg.price,
                               Append(newLvl, Entry(msg))))
            ELSE IF prevLvl[ordIt].size < msg.size
            THEN Ok(SetLvl(b, msg.side, prevPx,
                           Append(ListErase(prevLvl, ordIt), Entry(msg))))
            ELSE Ok(SetLvl(b, msg.side, prevPx,
                           [prevLvl EXCEPT ![ordIt].size = msg.size]))

\* Book::Apply: the set of its possible results.
BookApply(b, msg) ==
    CASE msg.action = ActClear -> {Clear(b)}
      [] msg.action = ActAdd -> {Add(b, msg)}
      [] msg.action = ActCancel -> Cancel(b, msg)
      [] msg.action = ActModify -> {Modify(b, msg)}
      [] OTHER -> {Ok(b)}

RECURSIVE Consume(_, _, _)
\* The while loop of Book::ProcSynthTrade over the level's list: the list it
\* leaves and the order ids it erased from ordsById_.
Consume(q, remSz, erased) ==
    IF q # <<>> /\ remSz > 0
    THEN IF Head(q).size <= remSz
         THEN Consume(Tail(q), remSz - Head(q).size,
                      erased \cup {Head(q).orderId})
         ELSE [q |-> <<[Head(q) EXCEPT !.size = @ - remSz]>> \o Tail(q),
               erased |-> erased]
    ELSE [q |-> q, erased |-> erased]

\* Book::ProcSynthTrade
ProcSynthTrade(b, px, sz, sideAff) ==
    IF ~ValidSide(sideAff) THEN Thrown(b)
    ELSE IF ~Has(GetSdOrds(b, sideAff), px) THEN Ok(b)
    ELSE LET c == Consume(GetSdOrds(b, sideAff)[px], sz, {})
             b1 == [SetLvl(b, sideAff, px, c.q) EXCEPT !.ordsById =
                       [x \in DOMAIN @ \ c.erased |-> @[x]]]
         IN  IF c.q = <<>> THEN RemLvl(b1, sideAff, px) ELSE Ok(b1)

----------------------------------------------------------------------------
(* class Market: books_ as a function on the (instrId, pubId) pairs that    *)
(* have a Book.  books_[i][p] creates both map entries at once, so an       *)
(* instrument is in books_ exactly when one of its pairs is.                *)

HasInstr(bks, instrId) == \E k \in DOMAIN bks : k[1] = instrId

HasBook(bks, instrId, pubId) == <<instrId, pubId>> \in DOMAIN bks

\* One PriceLvl added into the aggregation map (aggBids / aggAsks).
AggAdd(agg, lvl) ==
    IF IsEmpty(lvl) THEN agg
    ELSE LET cur == IF Has(agg, lvl.price) THEN agg[lvl.price] ELSE EmptyPriceLvl
         IN  MapPut(agg, lvl.price,
                    [price |-> lvl.price,
                     size |-> (cur.size + lvl.size) % U32Units,
                     count |-> cur.count + lvl.count])

RECURSIVE AggLvls(_, _, _)
\* The inner loop: the levels of one Book, from the i-th on.
AggLvls(agg, lvls, i) ==
    IF i > Len(lvls) THEN agg ELSE AggLvls(AggAdd(agg, lvls[i]), lvls, i + 1)

RECURSIVE AggBooks(_, _)
\* The outer loop over the publishers' Books of one instrument, given as the
\* set of their level lists still to add, each tagged with its publisher.
AggBooks(agg, todo) ==
    IF todo = {} THEN agg
    ELSE LET t == CHOOSE x \in todo : TRUE
         IN  AggBooks(AggLvls(agg, t[2], 1), todo \ {t})

\* Market::GetAggBidLvls
GetAggBidLvls(bks, instrId, numLvls) ==
    LET todo == {<<k[2], GetBidLvls(bks[k], numLvls)>> :
                     k \in {x \in DOMAIN bks : x[1] = instrId}}
        aggBids == AggBooks(EmptyMap, todo)
        ks == KeysDesc(DOMAIN aggBids)
    IN  [i \in 1..Min(numLvls, Len(ks)) |-> aggBids[ks[i]]]

\* Market::GetAggAskLvls
GetAggAskLvls(bks, instrId, numLvls) ==
    LET todo == {<<k[2], GetAskLvls(bks[k], numLvls)>> :
                     k \in {x \in DOMAIN bks : x[1] = instrId}}
        aggAsks == AggBooks(EmptyMap, todo)
        ks == KeysAsc(DOMAIN aggAsks)
    IN  [i \in 1..Min(numLvls, Len(ks)) |-> aggAsks[ks[i]]]

\* Market::GetLevelDepth
GetLevelDepth(bks, instrId, pubId, price, side) ==
    IF ~HasInstr(bks, instrId) THEN 0
    ELSE IF HasBook(bks, instrId, pubId)
         THEN IF side = Bid THEN GetBidLevelDepth(bks[<<instrId, pubId>>], price)
              ELSE IF side = Ask
                   THEN GetAskLevelDepth(bks[<<instrId, pubId>>], price)
                   ELSE 0
         ELSE 0

\* Market::Apply: books_[m.instrId][m.pubId] creates the Book, then
\* Book::Apply.  The set of possible results.
MarketApply(bks, msg) ==
    LET k == <<msg.instrId, msg.pubId>>
        b0 == IF Has(bks, k) THEN bks[k] ELSE EmptyBook
    IN  {[books |-> MapPut(bks, k, r.b), ok |-> r.ok] : r \in BookApply(b0, msg)}

\* Mutant of MarketProcSynthTrade: the trade taken from the Book of every
\* publisher of the instrument.
MarketProcSynthTradeAllPubs(bks, instrId, pubId, px, sz, sideAff) ==
    IF ~HasInstr(bks, instrId) \/ ~ValidSide(sideAff)
    THEN [books |-> bks, ok |-> ValidSide(sideAff)]
    ELSE [books |-> [k \in DOMAIN bks |->
                       IF k[1] = instrId
                       THEN ProcSynthTrade(bks[k], px, sz, sideAff).b
                       ELSE bks[k]],
          ok |-> TRUE]

\* Market::ProcSynthTrade
MarketProcSynthTrade(bks, instrId, pubId, px, sz, sideAff) ==
    IF ~HasInstr(bks, instrId) THEN [books |-> bks, ok |-> TRUE]
    ELSE IF ~HasBook(bks, instrId, pubId) THEN [books |-> bks, ok |-> TRUE]
    ELSE LET r == ProcSynthTrade(bks[<<instrId, pubId>>], px, sz, sideAff)
         IN  [books |-> MapPut(bks, <<instrId, pubId>>, r.b), ok |-> r.ok]

----------------------------------------------------------------------------
(* main: the driver loop and the T/F/C sequencer *)

\* Mutant of Stored: emplace in place of operator[], which keeps an entry the
\* id already has.
StoredKeepFirst(msg) ==
    IF Has(pendingTFs, msg.orderId) THEN pendingTFs[msg.orderId]
    ELSE [side |-> msg.side, price |-> msg.price, size |-> msg.size,
          instrId |-> msg.instrId, pubId |-> msg.pubId]

\* pendingTFs[m.orderId] = m: of the stored MboSingle the sequencer later
\* reads side, price and size; the instrument and publisher tell which line
\* stored it.
Stored(msg) ==
    [side |-> msg.side, price |-> msg.price, size |-> msg.size,
     instrId |-> msg.instrId, pubId |-> msg.pubId]

\* Mutant of SideAff: the trade applied to the side the Trade/Fill names.
SideAffSame(origSide) == origSide

\* The side a matched Cancel's synthetic trade hits: opposite to the side of
\* the pending Trade/Fill.
SideAff(origSide) == IF origSide = Ask THEN Bid ELSE Ask

\* WriteMbpRow: the row written for msg, rIdx its index.
WriteMbpRow(msg, bl, al, rIdx, depth) ==
    [idx |-> rIdx, msg |-> msg, depth |-> depth, bl |-> bl, al |-> al]

NoRow == [idx |-> -1, msg |-> NoMsg, depth |-> 0, bl |-> <<>>, al |-> <<>>]

\* No query of a Book's levels was made.
NoView == [op |-> "none", key |-> <<0, 0>>, arg |-> 0, res |-> <<>>]

\* The loop is running: nothing was thrown, and the input has a next line.
Running == ~halted /\ lineNo < MaxEvents

\* The end of an iteration: the two aggregated views of the event's
\* instrument are taken from the Market as the branch left it, and the row
\* is written under the next index.
Emit(msg, bks, pend, depth) ==
    /\ books' = bks
    /\ pendingTFs' = pend
    /\ row' = WriteMbpRow(msg, GetAggBidLvls(bks, msg.instrId, TopN),
                          GetAggAskLvls(bks, msg.instrId, TopN),
                          mbpRowIdx, depth)
    /\ mbpRowIdx' = mbpRowIdx + 1
    /\ m' = msg
    /\ lineNo' = lineNo + 1
    /\ pre' = [books |-> books, pendingTFs |-> pendingTFs]
    /\ UNCHANGED <<halted, view>>

\* An exception leaves main: the process ends, no row is written.
Abort(msg, bks, pend) ==
    /\ books' = bks
    /\ pendingTFs' = pend
    /\ m' = msg
    /\ lineNo' = lineNo + 1
    /\ halted' = TRUE
    /\ pre' = [books |-> books, pendingTFs |-> pendingTFs]
    /\ UNCHANGED <<row, mbpRowIdx, view>>

\* Mutant of IsTradeNoSide: the test made on Fill in place of Trade.
IsFillNoSide(e) == e.action = ActFill /\ e.side = NoSide

\* The test of the first branch: a Trade that names no side.
IsTradeNoSide(e) == e.action = ActTrade /\ e.side = NoSide

\* if (m.action == Act::Trade && m.side == Sd::None)
TradeNoSide(E) ==
    /\ Running
    /\ \E e \in E :
        /\ IsTradeNoSide(e)
        /\ Emit(e, books, pendingTFs, 0)

\* else if (m.action == Act::Trade || m.action == Act::Fill)
TradeFill(E) ==
    /\ Running
    /\ \E e \in E :
        /\ ~IsTradeNoSide(e)
        /\ e.action \in {ActTrade, ActFill}
        /\ Emit(e, books, MapPut(pendingTFs, e.orderId, Stored(e)), 0)

\* Mutant of EmitAndContinue: the continue taken without writing the row.
ContinueNoRow(msg, bks, pend, depth) ==
    /\ books' = bks
    /\ pendingTFs' = pend
    /\ m' = msg
    /\ lineNo' = lineNo + 1
    /\ pre' = [books |-> books, pendingTFs |-> pendingTFs]
    /\ UNCHANGED <<row, mbpRowIdx, halted, view>>

\* The row the Side::None branch writes itself before its continue.
EmitAndContinue(msg, bks, pend, depth) == Emit(msg, bks, pend, depth)

\* Mutant of CancelPendingNoSide: the pending entry erased only once its side
\* is known to be Ask or Bid.
CancelPendingNoSideKept(E) ==
    /\ Running
    /\ \E e \in E :
        /\ e.action = ActCancel
        /\ Has(pendingTFs, e.orderId)
        /\ ~ValidSide(pendingTFs[e.orderId].side)
        /\ EmitAndContinue(e, books, pendingTFs, 0)

\* Cancel with a pending Trade/Fill whose side is neither Ask nor Bid: the
\* row is written in the branch, then continue.
CancelPendingNoSide(E) ==
    /\ Running
    /\ \E e \in E :
        /\ e.action = ActCancel
        /\ Has(pendingTFs, e.orderId)
        /\ ~ValidSide(pendingTFs[e.orderId].side)
        /\ EmitAndContinue(e, books, MapErase(pendingTFs, e.orderId), 0)

\* The depth a matched Cancel's row carries.
SynthDepth(bks, e, origTFM) ==
    GetLevelDepth(bks, e.instrId, e.pubId, origTFM.price, SideAff(origTFM.side))

\* Cancel with a pending Trade/Fill: the synthetic trade.  An exception of
\* ProcSynthTrade is caught and logged.
CancelPending(E) ==
    /\ Running
    /\ \E e \in E :
        /\ e.action = ActCancel
        /\ Has(pendingTFs, e.orderId)
        /\ ValidSide(pendingTFs[e.orderId].side)
        /\ LET origTFM == pendingTFs[e.orderId]
               r == MarketProcSynthTrade(books, e.instrId, e.pubId, origTFM.price,
                                         origTFM.size, SideAff(origTFM.side))
           IN  Emit(e, r.books, MapErase(pendingTFs, e.orderId),
                    SynthDepth(r.books, e, origTFM))

\* The depth an applied event's row carries.
ApplyDepth(bks, e) ==
    IF e.action \in {ActAdd, ActModify, ActCancel}
    THEN GetLevelDepth(bks, e.instrId, e.pubId, e.price, e.side)
    ELSE 0

\* Cancel without a pending Trade/Fill: market.Apply(m).
CancelPassthrough(E) ==
    /\ Running
    /\ \E e \in E :
        /\ e.action = ActCancel
        /\ ~Has(pendingTFs, e.orderId)
        /\ \E r \in MarketApply(books, e) :
               IF r.ok THEN Emit(e, r.books, pendingTFs, ApplyDepth(r.books, e))
               ELSE Abort(e, r.books, pendingTFs)

\* The last else: Add, Modify, Clear, None go to market.Apply(m).
ApplyOther(E) ==
    /\ Running
    /\ \E e \in E :
        /\ e.action \in {ActAdd, ActModify, ActClear, ActNone}
        /\ \E r \in MarketApply(books, e) :
               IF r.ok THEN Emit(e, r.books, pendingTFs, ApplyDepth(r.books, e))
               ELSE Abort(e, r.books, pendingTFs)

\* Market market; int mbpRowIdx = 0; pendingTFs empty; the header line read.
Init ==
    /\ books = EmptyMap
    /\ pendingTFs = EmptyMap
    /\ mbpRowIdx = 0
    /\ lineNo = 0
    /\ m = NoMsg
    /\ row = NoRow
    /\ halted = FALSE
    /\ pre = [books |-> EmptyMap, pendingTFs |-> EmptyMap]
    /\ view = NoView

\* The input of Spec: every event of one instrument and one publisher.
Events == MboSingle({1}, {1})

Next ==
    \/ TradeNoSide(Events)
    \/ TradeFill(Events)
    \/ CancelPendingNoSide(Events)
    \/ CancelPending(Events)
    \/ CancelPassthrough(Events)
    \/ ApplyOther(Events)

Spec == Init /\ [][Next]_vars

-----------------------------------------------------------------------------
(* The level queries of a Book, called on the Books a feed of Adds builds.  *)
(* The sizes of this feed reach half the range of uint32_t.                 *)

ViewEvents ==
    [action : {ActAdd}, side : Sides, price : Prices, size : {1, HalfU32},
     orderId : Ids, instrId : {1}, pubId : {1}]

\* A call of one of the four level queries on the Book of key k.
Query(op, k, arg, res) ==
    /\ ~halted
    /\ view.op = "none"
    /\ view' = [op |-> op, key |-> k, arg |-> arg, res |-> res]
    /\ UNCHANGED <<books, pendingTFs, mbpRowIdx, lineNo, m, row, halted, pre>>

QueryBidLvl ==
    \E k \in DOMAIN books, idx \in 0..MaxPrice :
        Query("GetBidLvl", k, idx, GetBidLvl(books[k], idx))

QueryAskLvl ==
    \E k \in DOMAIN books, idx \in 0..MaxPrice :
        Query("GetAskLvl", k, idx, GetAskLvl(books[k], idx))

QueryBidLvls ==
    \E k \in DOMAIN books, numLvls \in 0..MaxPrice :
        Query("GetBidLvls", k, numLvls, GetBidLvls(books[k], numLvls))

QueryAskLvls ==
    \E k \in DOMAIN books, numLvls \in 0..MaxPrice :
        Query("GetAskLvls", k, numLvls, GetAskLvls(books[k], numLvls))

\* The feed goes on while no query was made.
FeedAdds == view = NoView /\ ApplyOther(ViewEvents)

NextView ==
    \/ FeedAdds
    \/ QueryBidLvl
    \/ QueryAskLvl
    \/ QueryBidLvls
    \/ QueryAskLvls

SpecView == Init /\ [][NextView]_vars

-----------------------------------------------------------------------------
(* The aggregated views of the Market, called on the Books a feed of Adds   *)
(* builds for two publishers of one instrument and one of another.          *)

AggEvents ==
    [action : {ActAdd}, side : {Ask, Bid}, price : Prices, size : {1, HalfU32},
     orderId : Ids, instrId : {1}, pubId : {1, 2}]
    \cup
    [action : {ActAdd}, side : {Ask, Bid}, price : Prices, size : {1, HalfU32},
     orderId : Ids, instrId : {2}, pubId : {1}]

\* The feed goes on while no query was made.
FeedAggAdds == view = NoView /\ ApplyOther(AggEvents)

\* market.GetAggBidLvls(instrId, numLvls); instrument 3 has no Book.
QueryAggBidLvls ==
    \E instrId \in 1..3, numLvls \in 0..MaxPrice :
        Query("GetAggBidLvls", <<instrId, 0>>, numLvls,
              GetAggBidLvls(books, instrId, numLvls))

\* market.GetAggAskLvls(instrId, numLvls)
QueryAggAskLvls ==
    \E instrId \in 1..3, numLvls \in 0..MaxPrice :
        Query("GetAggAskLvls", <<instrId, 0>>, numLvls,
              GetAggAskLvls(books, instrId, numLvls))

NextAgg ==
    \/ FeedAggAdds
    \/ QueryAggBidLvls
    \/ QueryAggAskLvls

SpecAgg == Init /\ [][NextAgg]_vars

-----------------------------------------------------------------------------
(* One Book under the calls main makes on it: Market::Apply for an Add,     *)
(* Modify, Clear or Cancel line without pending Trade/Fill, and             *)
(* Market::ProcSynthTrade for a Trade/Fill line followed by its Cancel,     *)
(* which reach the Book with every price, size and affected side.  view     *)
(* holds the last call, pre the Book before it.                             *)

\* The lines applied to the Book.  Book::Cancel reads neither side nor price
\* of its message, Book::Clear reads nothing of it.
BookEvents ==
    [action : {ActAdd, ActModify}, side : Sides, price : Prices, size : Sizes,
     orderId : Ids \cup {UnknownId}, instrId : {1}, pubId : {1}]
    \cup
    [action : {ActCancel}, side : {NoSide}, price : {UNDEFINED_PRICE},
     size : Sizes, orderId : Ids \cup {UnknownId}, instrId : {1}, pubId : {1}]
    \cup
    [action : {ActClear}, side : {NoSide}, price : {UNDEFINED_PRICE},
     size : {0}, orderId : {0}, instrId : {1}, pubId : {1}]

\* Nothing was thrown, and main has a next call to make.
Calling == ~halted /\ lineNo < MaxCalls

\* The state after a call on the Book: what it left, and whether it threw.
Called(op, arg, bks, ok) ==
    /\ books' = bks
    /\ halted' = ~ok
    /\ lineNo' = lineNo + 1
    /\ view' = [op |-> op, key |-> <<1, 1>>, arg |-> arg, res |-> ok]
    /\ pre' = [books |-> books, pendingTFs |-> pendingTFs]
    /\ UNCHANGED <<pendingTFs, mbpRowIdx, m, row>>

\* market.Apply(m)
CallApply ==
    /\ Calling
    /\ \E e \in BookEvents : \E r \in MarketApply(books, e) :
           Called("Apply", e, r.books, r.ok)

\* market.ProcSynthTrade(m.instrId, m.pubId, origTFM.price, origTFM.size,
\* sideAff)
CallProcSynthTrade ==
    /\ Calling
    /\ \E px \in Prices, sz \in Sizes, sideAff \in {Ask, Bid} :
           LET r == MarketProcSynthTrade(books, 1, 1, px, sz, sideAff)
           IN  Called("ProcSynthTrade",
                      [px |-> px, sz |-> sz, sideAff |-> sideAff],
                      r.books, r.ok)

NextBook ==
    \/ CallApply
    \/ CallProcSynthTrade

SpecBook == Init /\ [][NextBook]_vars

-----------------------------------------------------------------------------
(* Market::GetLevelDepth, called on the Market a feed of Adds builds for    *)
(* one instrument and publisher, with one price more than the other feeds   *)
(* have, so that a side has up to three levels.                             *)

\* The prices of the feed's orders.
DepthPrices == 1..(MaxPrice + 1)

DepthEvents ==
    [action : {ActAdd}, side : {Ask, Bid}, price : DepthPrices, size : {1},
     orderId : Ids \cup {UnknownId}, instrId : {1}, pubId : {1}]

\* The feed goes on while no query was made.
FeedDepthAdds == view.op = "none" /\ ApplyOther(DepthEvents)

\* market.GetLevelDepth(instrId, pubId, price, side): instrument 2 has no
\* Book and publisher 2 has none; the prices asked for go one below and one
\* above the feed's.
QueryLevelDepth ==
    \E instrId \in 1..2, pubId \in 1..2, price \in 0..(MaxPrice + 2),
       side \in Sides :
        Query("GetLevelDepth", <<instrId, pubId>>,
              [price |-> price, side |-> side],
              GetLevelDepth(books, instrId, pubId, price, side))

NextDepth ==
    \/ FeedDepthAdds
    \/ QueryLevelDepth

SpecDepth == Init /\ [][NextDepth]_vars

-----------------------------------------------------------------------------
(* main on a feed of two instruments and two publishers.  Its orders all    *)
(* have size 1, which keeps the feed as small as the one of Spec.           *)

MultiEvents ==
    {e \in MboSingle({1, 2}, {1, 2}) :
        /\ e.action \in {ActClear, ActNone} \/ e.size = 1
        /\ <<e.instrId, e.pubId>> # <<2, 2>>}

NextMulti ==
    \/ TradeNoSide(MultiEvents)
    \/ TradeFill(MultiEvents)
    \/ CancelPendingNoSide(MultiEvents)
    \/ CancelPending(MultiEvents)
    \/ CancelPassthrough(MultiEvents)
    \/ ApplyOther(MultiEvents)

SpecMulti == Init /\ [][NextMulti]_vars

----------------------------------------------------------------------------
(* Vocabulary of the properties, stated on the data and not through the     *)
(* operations above.                                                        *)

BookSides == {Ask, Bid}

\* The places of a Book's list entries: <<side, price, position>>.
Slots(b) ==
    UNION {UNION {{<<s, p, i>> : i \in 1..Len(GetSdOrds(b, s)[p])} :
                      p \in DOMAIN GetSdOrds(b, s)} : s \in BookSides}

EntryAt(b, sl) == GetSdOrds(b, sl[1])[sl[2]][sl[3]]

\* The last line was processed to the end: a row was written for it.
Completed == lineNo > 0 /\ ~halted

\* The Book of the last line's (instrument, publisher), before and after.
Key(msg) == <<msg.instrId, msg.pubId>>

\* The index and the lists of Book b agree.
IndexMatchesQueues(b) ==
    /\ DOMAIN b.ordsById = {EntryAt(b, sl).orderId : sl \in Slots(b)}
    /\ \A id \in DOMAIN b.ordsById :
           \E sl \in Slots(b) :
               /\ EntryAt(b, sl).orderId = id
               /\ sl[1] = b.ordsById[id].side
               /\ sl[2] = b.ordsById[id].price
               /\ \A t \in Slots(b) : EntryAt(b, t).orderId = id => t = sl

\* C1: after every line that is processed without an exception, in every
\* Book the ids of ordsById are the ids of the lists' entries, each id has
\* one entry, and the entry is in the list of the side and price the index
\* records.
C1_IndexMatchesQueues ==
    ~halted => \A k \in DOMAIN books : IndexMatchesQueues(books[k])

\* C4: no Book has a price with an empty list in bids or offers once a line
\* is processed.
C4_NoEmptyLevel ==
    ~halted =>
        \A k \in DOMAIN books : \A s \in BookSides :
            \A p \in DOMAIN GetSdOrds(books[k], s) :
                GetSdOrds(books[k], s)[p] # <<>>

\* C5: at rest every entry of every list has a size above 0.
C5_SizePositive ==
    ~halted =>
        \A k \in DOMAIN books : \A sl \in Slots(books[k]) :
            EntryAt(books[k], sl).size > 0

RECURSIVE TotalSize(_)
\* The sum of the sizes of a list's entries, as a number (no width).
TotalSize(q) == IF q = <<>> THEN 0 ELSE Head(q).size + TotalSize(Tail(q))

\* The list of Book b at (side, price); empty when b has no such level.
QueueAt(b, side, price) ==
    IF Has(GetSdOrds(b, side), price) THEN GetSdOrds(b, side)[price] ELSE <<>>

\* The prices of b's side that are better than price.
Better(b, side, price) ==
    IF side = Bid THEN {p \in DOMAIN b.bids : p > price}
    ELSE {p \in DOMAIN b.offers : p < price}

\* The zero-based best-first index of the level (side, price) in the Book of
\* key k, 0 when there is no such Book, side or level.
LevelIndex(bks, k, side, price) ==
    IF /\ k \in DOMAIN bks
       /\ side \in BookSides
       /\ Has(GetSdOrds(bks[k], side), price)
    THEN Cardinality(Better(bks[k], side, price))
    ELSE 0

\* The last line was a Cancel that met a pending Trade/Fill with a side.
MatchedCancel ==
    /\ Completed
    /\ m.action = ActCancel
    /\ Has(pre.pendingTFs, m.orderId)
    /\ pre.pendingTFs[m.orderId].side \in BookSides

C3_OneRowPerLine ==
    ~halted =>
        /\ mbpRowIdx = lineNo
        /\ lineNo > 0 => (row.idx = lineNo - 1 /\ row.msg = m)

\* The third line is a Cancel of an id no Book knows, met by a pending
\* Trade/Fill that names no side: nothing is applied, and it has row 2.
C3_Witness ==
    /\ Completed
    /\ lineNo = 3
    /\ m.action = ActCancel
    /\ Has(pre.pendingTFs, m.orderId)
    /\ pre.pendingTFs[m.orderId].side = NoSide
    /\ books = pre.books
    /\ row.idx = 2
    /\ row.msg = m

\* The last line was a Trade or Fill other than a Trade without side.
TradeOrFill ==
    /\ Completed
    /\ m.action \in {ActTrade, ActFill}
    /\ ~(m.action = ActTrade /\ m.side = NoSide)

\* C7: a Trade or Fill (not a Trade without side) changes and creates no
\* Book, becomes the pending entry of its order id in place of any earlier
\* one, and its row has depth 0 and the top-10 views the instrument had
\* before the line.
C7_TradeFillIsStored ==
    TradeOrFill =>
        /\ books = pre.books
        /\ DOMAIN pendingTFs = DOMAIN pre.pendingTFs \cup {m.orderId}
        /\ \A x \in DOMAIN pendingTFs \ {m.orderId} :
               pendingTFs[x] = pre.pendingTFs[x]
        /\ pendingTFs[m.orderId].side = m.side
        /\ pendingTFs[m.orderId].price = m.price
        /\ pendingTFs[m.orderId].size = m.size
        /\ pendingTFs[m.orderId].instrId = m.instrId
        /\ pendingTFs[m.orderId].pubId = m.pubId
        /\ row.depth = 0
        /\ row.bl = GetAggBidLvls(pre.books, m.instrId, TopN)
        /\ row.al = GetAggAskLvls(pre.books, m.instrId, TopN)

\* A Fill that replaces a different pending entry of its id, with an order
\* resting in the Book.
C7_Witness ==
    /\ TradeOrFill
    /\ m.action = ActFill
    /\ Has(pre.pendingTFs, m.orderId)
    /\ pre.pendingTFs[m.orderId] # pendingTFs[m.orderId]
    /\ row.bl # <<>>

\* C8: a Trade without side leaves every Book and pendingTFs as they were
\* and has a row of depth 0.
C8_TradeNoSideTouchesNothing ==
    (Completed /\ m.action = ActTrade /\ m.side = NoSide) =>
        /\ books = pre.books
        /\ pendingTFs = pre.pendingTFs
        /\ row.depth = 0

\* A Trade without side for an id that has a pending entry, with an order
\* resting in the Book.
C8_Witness ==
    /\ Completed
    /\ m.action = ActTrade /\ m.side = NoSide
    /\ Has(pendingTFs, m.orderId)
    /\ row.al # <<>>

\* The last line's mutation was skipped, or the line is irrelevant to the
\* Book.
SkippedOrIrrelevant ==
    /\ Completed
    /\ \/ m.action \in {ActTrade, ActFill, ActNone}
       \/ /\ m.action = ActCancel
          /\ ~Has(pre.pendingTFs, m.orderId)
          /\ \/ Key(m) \notin DOMAIN pre.books
             \/ ~Has(pre.books[Key(m)].ordsById, m.orderId)
       \/ /\ m.action = ActCancel
          /\ Has(pre.pendingTFs, m.orderId)
          /\ \/ pre.pendingTFs[m.orderId].side = NoSide
             \/ Key(m) \notin DOMAIN pre.books
             \/ ~Has(GetSdOrds(pre.books[Key(m)],
                               CHOOSE x \in BookSides :
                                   x # pre.pendingTFs[m.orderId].side),
                     pre.pendingTFs[m.orderId].price)

\* C9: the row of a skipped or irrelevant line has depth 0, whatever the
\* Book holds.
C9_SkippedDepthZero == SkippedOrIrrelevant => row.depth = 0

\* The last line was an Add, a Modify or a Cancel without pending
\* Trade/Fill, and it was applied without an exception.
Applied ==
    /\ Completed
    /\ \/ m.action \in {ActAdd, ActModify}
       \/ m.action = ActCancel /\ ~Has(pre.pendingTFs, m.orderId)

\* C10 as claimed: when such a line changes the Book, its depth is the index
\* after the line of the level the order rests in (Add, Modify) or was
\* cancelled from (Cancel), 0 if that level is gone.
C10_DepthOfOrdersLevel ==
    (/\ Applied
     /\ books # pre.books
     /\ m.action = ActCancel =>
            /\ Key(m) \in DOMAIN pre.books
            /\ Has(pre.books[Key(m)].ordsById, m.orderId)) =>
        LET k == Key(m)
            ps == IF m.action = ActCancel
                  THEN pre.books[k].ordsById[m.orderId]
                  ELSE books[k].ordsById[m.orderId]
        IN  row.depth = LevelIndex(books, k, ps.side, ps.price)

\* The price of b's side that has exactly i better prices on that side.
NthBest(b, side, i) ==
    CHOOSE p \in DOMAIN GetSdOrds(b, side) : Cardinality(Better(b, side, p)) = i

\* PriceLvl lvl is the i-th best level (from 0) of b's side: its price, the
\* sum of the sizes of the level's entries, and their number.
IsLevel(lvl, b, side, i) ==
    LET px == NthBest(b, side, i)
    IN  /\ lvl.price = px
        /\ lvl.size = TotalSize(GetSdOrds(b, side)[px])
        /\ lvl.count = Len(GetSdOrds(b, side)[px])

\* C6: the PriceLvl GetBidLvl(i)/GetAskLvl(i) returns for an index below the
\* number of levels, and the i-th element of GetBidLvls(n)/GetAskLvls(n),
\* has the i-th best price of the side, the sum of the sizes of that level's
\* entries as size and their number as count.
C6_LevelIsPriceSumCount ==
    view.op # "none" =>
        LET b == books[view.key]
            side == IF view.op \in {"GetBidLvl", "GetBidLvls"} THEN Bid ELSE Ask
            n == Cardinality(DOMAIN GetSdOrds(b, side))
        IN  IF view.op \in {"GetBidLvl", "GetAskLvl"}
            THEN view.arg < n => IsLevel(view.res, b, side, view.arg)
            ELSE /\ Len(view.res) = Min(view.arg, n)
                 /\ \A i \in 1..Len(view.res) :
                        IsLevel(view.res[i], b, side, i - 1)

RECURSIVE SizeOver(_, _, _, _)
\* The sum, over the Books of the keys ks, of the sizes of the entries at
\* (side, price).
SizeOver(ks, bks, side, price) ==
    IF ks = {} THEN 0
    ELSE LET k == CHOOSE x \in ks : TRUE
         IN  TotalSize(QueueAt(bks[k], side, price))
               + SizeOver(ks \ {k}, bks, side, price)

RECURSIVE CountOver(_, _, _, _)
\* The sum, over the Books of the keys ks, of the numbers of entries at
\* (side, price).
CountOver(ks, bks, side, price) ==
    IF ks = {} THEN 0
    ELSE LET k == CHOOSE x \in ks : TRUE
         IN  Len(QueueAt(bks[k], side, price))
               + CountOver(ks \ {k}, bks, side, price)

\* C11: GetAggBidLvls(instrument, n) returns at most n levels of strictly
\* decreasing prices and GetAggAskLvls(instrument, n) at most n of strictly
\* increasing prices; the size and count of each are the sums, over the
\* instrument's publishers that have a level at the price, of that level's
\* size and number of orders; an unknown instrument gives the empty list.
C11_AggregatedLevels ==
    view.op \in {"GetAggBidLvls", "GetAggAskLvls"} =>
        LET side == IF view.op = "GetAggBidLvls" THEN Bid ELSE Ask
            ks == {k \in DOMAIN books : k[1] = view.key[1]}
            res == view.res
        IN  /\ Len(res) <= view.arg
            /\ \A i \in 1..(Len(res) - 1) :
                   IF side = Bid THEN res[i].price > res[i + 1].price
                   ELSE res[i].price < res[i + 1].price
            /\ \A i \in 1..Len(res) :
                   /\ res[i].size = SizeOver(ks, books, side, res[i].price)
                   /\ res[i].count = CountOver(ks, books, side, res[i].price)
            /\ ks = {} => res = <<>>

\* The Book of SpecBook before and after the last call; the empty Book
\* stands for the Book a first call creates.
BookKey == <<1, 1>>
OldBook == IF BookKey \in DOMAIN pre.books THEN pre.books[BookKey] ELSE EmptyBook
NewBook == books[BookKey]

\* The last call on the Book returned.
Returned(op) == view.op = op /\ ~halted

\* The sum of the sizes of the first j entries of q.
PrefixSize(q, j) == TotalSize(SubSeq(q, 1, j))

\* The length of the longest prefix of q whose sizes fit in sz.
Fit(q, sz) ==
    CHOOSE j \in 0..Len(q) :
        /\ PrefixSize(q, j) <= sz
        /\ \A i \in (j + 1)..Len(q) : PrefixSize(q, i) > sz

\* The queue a synthetic trade of sz is to leave of q: the longest fitting
\* prefix gone, the next entry reduced by what is left to consume.
Consumed(q, sz) ==
    LET j == Fit(q, sz)
    IN  IF j = Len(q) THEN <<>>
        ELSE <<[q[j + 1] EXCEPT !.size = @ - (sz - PrefixSize(q, j))]>>
               \o SubSeq(q, j + 2, Len(q))

\* The ids of the entries of q.
IdsOf(q) == {q[i].orderId : i \in 1..Len(q)}

\* Book new is Book old with the list at (side, price) replaced by q, the
\* level removed when q is empty, and every other level as it was.
OnlyLevelChanged(old, new, side, price, q) ==
    /\ GetSdOrds(new, side) =
         IF q = <<>> THEN MapErase(GetSdOrds(old, side), price)
         ELSE MapPut(GetSdOrds(old, side), price, q)
    /\ \A sd \in BookSides \ {side} : GetSdOrds(new, sd) = GetSdOrds(old, sd)

\* C12: ProcSynthTrade(price, size, side) on an existing level removes from
\* the list and from the id index the longest prefix of whole orders whose
\* sizes fit in what is still to consume, reduces the next order by the
\* remainder, keeps the order of the surviving entries, removes the level if
\* and only if it became empty and leaves every other level and the other
\* side alone; without a level at (side, price) the Book is unchanged.
C12_SynthTradeConsumesHead ==
    (Returned("ProcSynthTrade") /\ BookKey \in DOMAIN pre.books) =>
        LET a == view.arg
            q == QueueAt(OldBook, a.sideAff, a.px)
        IN  IF ~Has(GetSdOrds(OldBook, a.sideAff), a.px)
            THEN NewBook = OldBook
            ELSE /\ OnlyLevelChanged(OldBook, NewBook, a.sideAff, a.px,
                                     Consumed(q, a.sz))
                 /\ NewBook.ordsById =
                      [x \in DOMAIN OldBook.ordsById
                             \ IdsOf(SubSeq(q, 1, Fit(q, a.sz)))
                         |-> OldBook.ordsById[x]]

\* The Book the last line of the feed addressed, as it was before the line;
\* the empty Book when the line created it.
PreBook == IF Key(m) \in DOMAIN pre.books THEN pre.books[Key(m)] ELSE EmptyBook

\* The last line read is an Add of an id its Book holds.
DuplicateAdd ==
    /\ lineNo > 0
    /\ m.action = ActAdd
    /\ Has(PreBook.ordsById, m.orderId)

\* The last line read is a Modify of an id its Book holds on another side.
ModifyChangesSide ==
    /\ lineNo > 0
    /\ m.action = ActModify
    /\ Has(PreBook.ordsById, m.orderId)
    /\ PreBook.ordsById[m.orderId].side # m.side

\* C13: an Add of an id the Book's index holds and a Modify of a known id
\* with another side than the recorded one throw out of main: no row is
\* written for the line, and nothing happens after it; so the side the index
\* records for an id never changes while the id stays in the index.
C13_FatalFaultsAbort ==
    /\ [](/\ (DuplicateAdd \/ ModifyChangesSide) => halted
          /\ halted => (mbpRowIdx = lineNo - 1 /\ row.idx = mbpRowIdx - 1)
          /\ \A k \in DOMAIN pre.books \cap DOMAIN books :
               \A id \in DOMAIN pre.books[k].ordsById
                           \cap DOMAIN books[k].ordsById :
                   books[k].ordsById[id].side = pre.books[k].ordsById[id].side)
    /\ [][halted => UNCHANGED vars]_vars

\* The third line is a Modify that names the other side of a resting order:
\* main ended with the rows of the two lines before it.
C13_Witness ==
    /\ ModifyChangesSide
    /\ m.side \in BookSides
    /\ halted
    /\ lineNo = 3
    /\ mbpRowIdx = 2
    /\ row.idx = 1

\* The last call on the Book was Apply of a line of action act.
Applying(act) == view.op = "Apply" /\ view.arg.action = act

\* The position in q of the entry of order id.
Pos(q, id) == CHOOSE i \in 1..Len(q) : q[i].orderId = id

\* Book b holds order id in its index and has its entry in the list of the
\* level the index records.
Resting(b, id) ==
    /\ Has(b.ordsById, id)
    /\ b.ordsById[id].side \in BookSides
    /\ id \in IdsOf(QueueAt(b, b.ordsById[id].side, b.ordsById[id].price))

\* The list of the level the index of b records for id.
QueueOf(b, id) == QueueAt(b, b.ordsById[id].side, b.ordsById[id].price)

\* C14: a Cancel of an id the index does not hold leaves bids, offers and
\* the index as they were and does not end main; a Cancel of a known id for
\* more than the order's size removes the order, as a Cancel of exactly its
\* size does; a Cancel for less than the order's size reduces the entry by
\* that amount, where it is in its list.
C14_CancelSizes ==
    Applying(ActCancel) =>
        LET e == view.arg
            id == e.orderId
        IN  IF ~Has(OldBook.ordsById, id)
            THEN ~halted /\ NewBook = OldBook
            ELSE Resting(OldBook, id) =>
                 LET q == QueueOf(OldBook, id)
                     i == Pos(q, id)
                     ps == OldBook.ordsById[id]
                 IN  /\ e.size > q[i].size =>
                          /\ ~Has(NewBook.ordsById, id)
                          /\ id \notin IdsOf(QueueAt(NewBook, ps.side, ps.price))
                          /\ [b |-> NewBook, ok |-> ~halted]
                               \in Cancel(OldBook, [e EXCEPT !.size = q[i].size])
                     /\ e.size < q[i].size =>
                          /\ ~halted
                          /\ NewBook.ordsById = OldBook.ordsById
                          /\ OnlyLevelChanged(OldBook, NewBook, ps.side, ps.price,
                                 [q EXCEPT ![i].size = q[i].size - e.size])

\* A Cancel for more than its size took the middle order of three out of a
\* level.
C14_Witness ==
    /\ Applying(ActCancel)
    /\ ~halted
    /\ Resting(OldBook, view.arg.orderId)
    /\ LET id == view.arg.orderId
           ps == OldBook.ordsById[id]
           q == QueueOf(OldBook, id)
       IN  /\ Len(q) = 3
           /\ Pos(q, id) = 2
           /\ q[2].size = 1
           /\ view.arg.size = 2
           /\ ~Has(NewBook.ordsById, id)
           /\ QueueAt(NewBook, ps.side, ps.price) = <<q[1], q[3]>>

\* pendingTFs is pre.pendingTFs but for the entry of the last line's order
\* id, which is v, or absent when v is NoMsg.
OnlyPendingChanged(v) ==
    /\ DOMAIN pendingTFs \ {m.orderId} = DOMAIN pre.pendingTFs \ {m.orderId}
    /\ \A x \in DOMAIN pendingTFs \ {m.orderId} :
           pendingTFs[x] = pre.pendingTFs[x]
    /\ IF v = NoMsg THEN ~Has(pendingTFs, m.orderId)
       ELSE Has(pendingTFs, m.orderId) /\ pendingTFs[m.orderId] = v

\* C15: pendingTFs holds one event per order id; the entry of id x is made
\* or overwritten only by a Trade or Fill of x that is not a Trade without
\* side, and removed only by a Cancel of x; no other line changes
\* pendingTFs; a Cancel of x that finds no entry, also after the Cancel that
\* removed it, is applied to the Book as a Cancel.
C15_PendingEntries ==
    lineNo > 0 =>
        IF m.action \in {ActTrade, ActFill}
             /\ ~(m.action = ActTrade /\ m.side = NoSide)
        THEN OnlyPendingChanged([side |-> m.side, price |-> m.price,
                                 size |-> m.size, instrId |-> m.instrId,
                                 pubId |-> m.pubId])
        ELSE IF m.action = ActCancel /\ Has(pre.pendingTFs, m.orderId)
        THEN OnlyPendingChanged(NoMsg)
        ELSE /\ pendingTFs = pre.pendingTFs
             /\ (m.action = ActCancel /\ ~halted) =>
                  /\ Key(m) \in DOMAIN books
                  /\ Resting(PreBook, m.orderId) =>
                       LET q == QueueOf(PreBook, m.orderId)
                           i == Pos(q, m.orderId)
                           ps == PreBook.ordsById[m.orderId]
                       IN  IF m.size < q[i].size
                           THEN QueueAt(books[Key(m)], ps.side, ps.price) =
                                  [q EXCEPT ![i].size = q[i].size - m.size]
                           ELSE ~Has(books[Key(m)].ordsById, m.orderId)

\* A Cancel removed the pending Trade/Fill of its id and left the one of
\* another id.
C15_Witness ==
    /\ lineNo = 3
    /\ m.action = ActCancel
    /\ Has(pre.pendingTFs, m.orderId)
    /\ DOMAIN pre.pendingTFs = DOMAIN pendingTFs \cup {m.orderId}
    /\ DOMAIN pendingTFs # {}
    /\ ~Has(pendingTFs, m.orderId)

\* The list q without its i-th entry, the others in their order.
Without(q, i) == [j \in 1..(Len(q) - 1) |-> IF j < i THEN q[j] ELSE q[j + 1]]

\* The entry a line leaves of its order in a list.
EntryOf(e) == [orderId |-> e.orderId, size |-> e.size]

\* The last call applied a Modify of an order that rests in the Book, on the
\* side the index records.
ModifyResting ==
    /\ Applying(ActModify)
    /\ Resting(OldBook, view.arg.orderId)
    /\ OldBook.ordsById[view.arg.orderId].side = view.arg.side

\* C16: a Modify of a known order at its recorded price to a size greater
\* than its size moves the entry to the tail of its level's list with the
\* new size; to a size not greater, the entry keeps its place and takes the
\* new size; the other entries of the level keep their order.
C16_ModifySamePrice ==
    (ModifyResting
       /\ OldBook.ordsById[view.arg.orderId].price = view.arg.price) =>
        LET e == view.arg
            q == QueueOf(OldBook, e.orderId)
            i == Pos(q, e.orderId)
        IN  /\ ~halted
            /\ NewBook.ordsById = OldBook.ordsById
            /\ OnlyLevelChanged(OldBook, NewBook, e.side, e.price,
                   IF e.size > q[i].size
                   THEN Without(q, i) \o <<EntryOf(e)>>
                   ELSE [q EXCEPT ![i] = EntryOf(e)])

\* A Modify to a greater size sent the first of three orders of a level
\* behind the two others.
C16_Witness ==
    /\ ModifyResting
    /\ ~halted
    /\ OldBook.ordsById[view.arg.orderId].price = view.arg.price
    /\ LET q == QueueOf(OldBook, view.arg.orderId)
       IN  /\ Len(q) = 3
           /\ q[1].orderId = view.arg.orderId
           /\ q[1].size < view.arg.size
           /\ QueueAt(NewBook, view.arg.side, view.arg.price)
                = <<q[2], q[3], EntryOf(view.arg)>>

\* C17: a Modify of a known order to another price of its side takes the
\* entry out of its old level, which goes when it is left empty, sets the
\* index's price, and appends the entry behind every order of the new
\* price's list, made if need be; no other level changes; with the size
\* unchanged, count 1 and the order's size pass from the old level to the
\* new one.
C17_ModifyMovesPrice ==
    (ModifyResting
       /\ OldBook.ordsById[view.arg.orderId].price # view.arg.price) =>
        LET e == view.arg
            prevPx == OldBook.ordsById[e.orderId].price
            q == QueueOf(OldBook, e.orderId)
            i == Pos(q, e.orderId)
            oldSd == GetSdOrds(OldBook, e.side)
            newSd == GetSdOrds(NewBook, e.side)
            there == QueueAt(OldBook, e.side, e.price)
        IN  /\ ~halted
            /\ NewBook.ordsById =
                 [OldBook.ordsById EXCEPT ![e.orderId] =
                     [price |-> e.price, side |-> e.side]]
            /\ DOMAIN newSd =
                 (DOMAIN oldSd \ (IF Len(q) = 1 THEN {prevPx} ELSE {}))
                   \cup {e.price}
            /\ Len(q) > 1 => newSd[prevPx] = Without(q, i)
            /\ newSd[e.price] = there \o <<EntryOf(e)>>
            /\ \A p \in DOMAIN newSd \ {prevPx, e.price} : newSd[p] = oldSd[p]
            /\ \A sd \in BookSides \ {e.side} :
                   GetSdOrds(NewBook, sd) = GetSdOrds(OldBook, sd)
            /\ e.size = q[i].size =>
                 /\ Len(QueueAt(NewBook, e.side, prevPx)) = Len(q) - 1
                 /\ TotalSize(QueueAt(NewBook, e.side, prevPx))
                      = TotalSize(q) - e.size
                 /\ Len(newSd[e.price]) = Len(there) + 1
                 /\ TotalSize(newSd[e.price]) = TotalSize(there) + e.size

\* A Modify moved the only order of a level, its size unchanged, behind the
\* order that rests at the new price: the old level is gone.
C17_Witness ==
    /\ ModifyResting
    /\ ~halted
    /\ OldBook.ordsById[view.arg.orderId].price # view.arg.price
    /\ LET e == view.arg
           prevPx == OldBook.ordsById[e.orderId].price
       IN  /\ QueueAt(OldBook, e.side, prevPx) = <<EntryOf(e)>>
           /\ Len(QueueAt(OldBook, e.side, e.price)) = 1
           /\ e.size > 0
           /\ ~Has(GetSdOrds(NewBook, e.side), prevPx)
           /\ QueueAt(NewBook, e.side, e.price)
                = QueueAt(OldBook, e.side, e.price) \o <<EntryOf(e)>>

\* C18: Clear leaves a Book of no bids, no offers and no index entries, which
\* is the Book as it is first made, whatever it held, and so a second Clear
\* changes nothing; the Book stays in the Market.
C18_ClearEmpties ==
    Applying(ActClear) =>
        /\ ~halted
        /\ BookKey \in DOMAIN books
        /\ NewBook.bids = EmptyMap
        /\ NewBook.offers = EmptyMap
        /\ NewBook.ordsById = EmptyMap
        /\ NewBook = EmptyBook
        /\ OldBook = EmptyBook => NewBook = OldBook

\* A Clear of a Book that held orders on both sides.
C18_Witness ==
    /\ Applying(ActClear)
    /\ ~halted
    /\ OldBook.bids # EmptyMap
    /\ OldBook.offers # EmptyMap
    /\ DOMAIN OldBook.ordsById # {}
    /\ NewBook = EmptyBook

\* The Book of SpecBook as it is now.
CurBook == IF BookKey \in DOMAIN books THEN books[BookKey] ELSE EmptyBook

\* C19: in every Book main can reach, for every order id x not in the
\* index, side Bid or Ask, price and size s, Add(x, s) followed by
\* Cancel(x, s) returns and leaves bids, offers, with the order of every
\* list, and the index as they were before the Add.
C19_AddCancelIsNoOp ==
    ~halted =>
        \A x \in (Ids \cup {UnknownId}) \ DOMAIN CurBook.ordsById,
           side \in BookSides, px \in Prices, sz \in Sizes :
            LET e == [action |-> ActAdd, side |-> side, price |-> px,
                      size |-> sz, orderId |-> x, instrId |-> 1, pubId |-> 1]
                added == Add(CurBook, e)
            IN  /\ added.ok
                /\ \A c \in Cancel(added.b, [e EXCEPT !.action = ActCancel]) :
                       c.ok /\ c.b = CurBook

\* The last line read has action act and names an id its Book does not hold.
UnknownIdLine(act) ==
    /\ lineNo > 0
    /\ m.action = act
    /\ ~Has(PreBook.ordsById, m.orderId)

\* What an Add of the last line does: with a side, its entry is appended to
\* the list at (side, price), the index records (price, side), nothing else
\* changes, and the row's depth is the index of that level; without a side
\* it throws.
AddedLastLine ==
    IF m.side \in BookSides
    THEN /\ ~halted
         /\ OnlyLevelChanged(PreBook, books[Key(m)], m.side, m.price,
                QueueAt(PreBook, m.side, m.price) \o <<EntryOf(m)>>)
         /\ DOMAIN books[Key(m)].ordsById
              = DOMAIN PreBook.ordsById \cup {m.orderId}
         /\ \A x \in DOMAIN PreBook.ordsById :
                books[Key(m)].ordsById[x] = PreBook.ordsById[x]
         /\ books[Key(m)].ordsById[m.orderId]
              = [price |-> m.price, side |-> m.side]
         /\ row.msg = m
         /\ row.depth = LevelIndex(books, Key(m), m.side, m.price)
    ELSE halted

\* C20: a Modify of an id the index does not hold leaves the bids, offers
\* and index that an Add of the same id, side, price and size leaves, and
\* its row has the same depth.
C20_ModifyUnknownIsAdd ==
    /\ UnknownIdLine(ActModify) => AddedLastLine
    /\ UnknownIdLine(ActAdd) => AddedLastLine

\* A Modify of an unknown id made the second best Ask level.
C20_Witness ==
    /\ UnknownIdLine(ActModify)
    /\ ~halted
    /\ m.side = Ask
    /\ DOMAIN PreBook.offers # {}
    /\ ~Has(PreBook.offers, m.price)
    /\ books[Key(m)].offers[m.price] = <<EntryOf(m)>>
    /\ row.depth = 1

\* Book b with its sides exchanged and every price p turned into -p: the
\* best bid becomes the best ask.
Mirror(b) ==
    [bids |-> [p \in {-x : x \in DOMAIN b.offers} |-> b.offers[-p]],
     offers |-> [p \in {-x : x \in DOMAIN b.bids} |-> b.bids[-p]],
     ordsById |-> [id \in DOMAIN b.ordsById |->
                     [price |-> -b.ordsById[id].price,
                      side |-> IF b.ordsById[id].side = Bid THEN Ask ELSE Bid]]]

\* C21: GetLevelDepth(instrument, publisher, price, side) is the number of
\* levels of the side with a better price (greater for Bid, less for Ask)
\* when the publisher's Book has a level of the side at the price, and 0
\* when it has none, when the instrument or the publisher's Book does not
\* exist, and when the side is None; GetBidLevelDepth of a Book at a price is
\* GetAskLevelDepth of the mirrored Book at the mirrored price, and the
\* other way round.
C21_LevelDepth ==
    /\ view.op = "GetLevelDepth" =>
          /\ view.res = LevelIndex(books, view.key, view.arg.side,
                                   view.arg.price)
          /\ view.key \notin DOMAIN books => view.res = 0
          /\ view.arg.side = NoSide => view.res = 0
    /\ \A k \in DOMAIN books : \A p \in 0..(MaxPrice + 2) :
          /\ GetBidLevelDepth(books[k], p) = GetAskLevelDepth(Mirror(books[k]), -p)
          /\ GetAskLevelDepth(books[k], p) = GetBidLevelDepth(Mirror(books[k]), -p)

\* The depth asked for is that of the worst of three Ask levels.
C21_Witness ==
    /\ view.op = "GetLevelDepth"
    /\ view.key \in DOMAIN books
    /\ view.arg.side = Ask
    /\ Cardinality(DOMAIN books[view.key].offers) = 3
    /\ view.arg.price = MaxPrice + 1
    /\ view.res = 2

\* The prices at which a Book of the keys ks has a level of the side.
PricesOver(ks, bks, side) == UNION {DOMAIN GetSdOrds(bks[k], side) : k \in ks}

\* A number of levels no Book side of bks exceeds: the local lists of a query
\* for so many levels are the Books' full depth.
FullDepth(bks) ==
    Cardinality(UNION {DOMAIN bks[k].bids \cup DOMAIN bks[k].offers :
                           k \in DOMAIN bks})

\* C22: in a state where no order rests at UNDEFINED_PRICE, the list
\* GetAggBidLvls/GetAggAskLvls(instrument, n) returns for n >= 1, made of
\* each publisher's best n levels, is the first n levels of the list the
\* same aggregation makes of every publisher's full depth, with the same
\* prices, sizes and counts in the same order: its prices are the n best at
\* which a publisher of the instrument has a level, and each count is the
\* number of orders all publishers have at the price.
C22_LocalTopNIsFullDepth ==
    (/\ view.op \in {"GetAggBidLvls", "GetAggAskLvls"}
     /\ view.arg >= 1
     /\ \A k \in DOMAIN books : \A s \in BookSides :
            UNDEFINED_PRICE \notin DOMAIN GetSdOrds(books[k], s)) =>
        LET side == IF view.op = "GetAggBidLvls" THEN Bid ELSE Ask
            instrId == view.key[1]
            ks == {k \in DOMAIN books : k[1] = instrId}
            all == PricesOver(ks, books, side)
            full == IF side = Bid
                    THEN GetAggBidLvls(books, instrId, FullDepth(books))
                    ELSE GetAggAskLvls(books, instrId, FullDepth(books))
            res == view.res
        IN  /\ Len(full) = Cardinality(all)
            /\ res = SubSeq(full, 1, Min(view.arg, Len(full)))
            /\ \A i \in 1..Len(res) :
                   /\ res[i].price \in all
                   /\ Cardinality({p \in all : IF side = Bid
                                                THEN p > res[i].price
                                                ELSE p < res[i].price}) = i - 1
                   /\ res[i].count = CountOver(ks, books, side, res[i].price)

\* The best bid level is asked for; one publisher has two bid levels, the
\* other has one at the lower price, which is the best of its own: the one
\* level returned is the first publisher's best.
C22_Witness ==
    /\ view.op = "GetAggBidLvls"
    /\ view.key[1] = 1
    /\ view.arg = 1
    /\ DOMAIN books = {<<1, 1>>, <<1, 2>>}
    /\ DOMAIN books[<<1, 1>>].bids = {1, 2}
    /\ DOMAIN books[<<1, 2>>].bids = {1}
    /\ Len(view.res) = 1
    /\ view.res[1].price = 2
    /\ view.res[1].count = 1

\* The instruments that have a Book before or after the last line.
Instruments == {k[1] : k \in DOMAIN books \cup DOMAIN pre.books}

\* C23: a line changes no Book but the one of its own (instrument,
\* publisher), which it may create: every other Book is as it was before the
\* line, also when the line is a Cancel that meets a pending Trade/Fill
\* stored by a line of another instrument or publisher, and when the line
\* throws; the top-10 aggregated bids and asks of every other instrument are
\* as they were.
C23_OnlyOwnBookChanges ==
    lineNo > 0 =>
        /\ DOMAIN pre.books \subseteq DOMAIN books
        /\ DOMAIN books \subseteq DOMAIN pre.books \cup {Key(m)}
        /\ \A k \in DOMAIN pre.books \ {Key(m)} : books[k] = pre.books[k]
        /\ \A instrId \in Instruments \ {m.instrId} :
               /\ GetAggBidLvls(books, instrId, TopN)
                    = GetAggBidLvls(pre.books, instrId, TopN)
               /\ GetAggAskLvls(books, instrId, TopN)
                    = GetAggAskLvls(pre.books, instrId, TopN)

\* A Cancel met the pending Trade/Fill a line of another (instrument,
\* publisher) stored; the Book of that line has a level at the pending price
\* on the side the synthetic trade hits, and keeps it.
C23_Witness ==
    /\ MatchedCancel
    /\ LET prior == pre.pendingTFs[m.orderId]
           pk == <<prior.instrId, prior.pubId>>
           side == CHOOSE x \in BookSides : x # prior.side
       IN  /\ pk # Key(m)
           /\ pk \in DOMAIN pre.books
           /\ Has(GetSdOrds(pre.books[pk], side), prior.price)
           /\ books[pk] = pre.books[pk]

\* C24: when an Add names an id its Book's index holds, the Book's bids,
\* offers and index are, once the exception is thrown, what they were before
\* the Add, and so the index and the lists agree then if they did before.
C24_DuplicateAddLeavesBook ==
    DuplicateAdd =>
        /\ halted
        /\ books[Key(m)].bids = PreBook.bids
        /\ books[Key(m)].offers = PreBook.offers
        /\ books[Key(m)].ordsById = PreBook.ordsById
        /\ IndexMatchesQueues(PreBook) => IndexMatchesQueues(books[Key(m)])

\* The last line read is an Add, or a Modify of an id its Book does not
\* hold, and names no side.
AddNoSide ==
    /\ lineNo > 0
    /\ m.side = NoSide
    /\ \/ m.action = ActAdd
       \/ UnknownIdLine(ActModify)

\* C25: an Add, and a Modify of an id the index does not hold, with side
\* None throws out of main, which ends: no row is written for the line, and
\* the Book's bids, offers and index are what they were before the line; no
\* index of a Book ever records side None for an order.
C25_NoSideAddAborts ==
    /\ AddNoSide =>
          /\ halted
          /\ mbpRowIdx = lineNo - 1
          /\ row.idx = mbpRowIdx - 1
          /\ Key(m) \in DOMAIN books
          /\ books[Key(m)].bids = PreBook.bids
          /\ books[Key(m)].offers = PreBook.offers
          /\ books[Key(m)].ordsById = PreBook.ordsById
    /\ \A k \in DOMAIN books : \A id \in DOMAIN books[k].ordsById :
          books[k].ordsById[id].side \in BookSides

\* The third line is a Modify of an unknown id without side, met by a Book
\* that holds an order: main ended with the rows of the two lines before.
C25_Witness ==
    /\ AddNoSide
    /\ m.action = ActModify
    /\ halted
    /\ lineNo = 3
    /\ mbpRowIdx = 2
    /\ DOMAIN PreBook.ordsById # {}
    /\ books[Key(m)] = PreBook

====
